---- MODULE Spec2Model ----
(***************************************************************************)
(* Model of the two sample programs of the repository:                     *)
(*   iree-torch/torchscript_resnet18_e2e.py  (script: compile, load, run   *)
(*       the PyTorch and the IREE path on one image, print both top-3)     *)
(*   tflitehub/mobilenet_v3_test.py          (MobilenetV3Test and its      *)
(*       compare_results override built on numpy.isclose)                  *)
(* Floating point values are modelled exactly, as integers counting units  *)
(* of 1e-5, together with the IEEE special values NaN, +inf and -inf.      *)
(***************************************************************************)
EXTENDS Integers, Sequences, FiniteSets, TLC

VARIABLES
    \* ---- torchscript_resnet18_e2e.py ----
    pc,                 \* position of the script
    err,                \* exception that ended the script ("none" if none)
    log,                \* steps executed so far, in order, with their outcome
    img,                \* module global img (line 134)
    genCount,           \* how many times the input image was generated
    compiled,           \* module global compiled (line 164)
    jit_module,         \* module global jit_module (line 165), an IREEInvoker
    jit_func,           \* the closure jit_module.forward passed to predictions
    torch_arg,          \* the value torch_func was called with
    jit_arg,            \* the value jit_func was called with
    torch_out,          \* what torch_func returned
    jit_out,            \* what jit_func returned
    golden_prediction,  \* local of predictions (line 56)
    prediction,         \* local of predictions (line 59)
    stdout,             \* what the script printed
    \* ---- IREEInvoker used on its own ----
    entry_points,       \* function names of the loaded module
    handles,            \* closures obtained through __getattr__
    calls,              \* invocations made through those closures
    looked_up,          \* names that were looked up on the invoker
    \* ---- mobilenet_v3_test.py ----
    tpc,                \* position of the test case
    run,                \* which run of the test program this is
    engine_iree,        \* what the IREE engine computes for (M, x)
    engine_tflite,      \* what the TFLite engine computes for (M, x)
    base_ok,            \* whether the inherited compare_results accepts
    iree_results,       \* argument of compare_results
    tflite_results,     \* argument of compare_results
    exc,                \* exception raised by compare_results
    ret,                \* value returned by compare_results
    verdicts            \* outcome of each finished run

e2e_vars == <<pc, err, log, img, genCount, compiled, jit_module, jit_func,
              torch_arg, jit_arg, torch_out, jit_out, golden_prediction,
              prediction, stdout>>
inv_vars == <<entry_points, handles, calls, looked_up>>
cmp_vars == <<tpc, run, engine_iree, engine_tflite, base_ok, iree_results,
              tflite_results, exc, ret, verdicts>>
vars == <<e2e_vars, inv_vars, cmp_vars>>

\* ------------------------------------------------------------------------
\* Bounds of the model
\* ------------------------------------------------------------------------
NumClasses == 4
NumInputs == 2
MaxCalls == 2
MaxLen == 2
MaxRuns == 2

None == [kind |-> "None"]

\* ------------------------------------------------------------------------
\* torchscript_resnet18_e2e.py
\* ------------------------------------------------------------------------

\* A torch tensor and a numpy array are distinct kinds of object holding
\* element data.
Tensor(d) == [kind |-> "Tensor", data |-> d]

\* Tensor.numpy(): an ndarray over the same elements.
numpy(t) == [kind |-> "ndarray", data |-> t.data]

\* torch.from_numpy(): a tensor over the elements of an ndarray.
from_numpy(a) == [kind |-> "Tensor", data |-> a.data]

\* The images load_and_preprocess_image can return.
Inputs == {Tensor(<<i>>) : i \in 1..NumInputs}

\* The scores an inference path gives a class.
Scores == {0, 1}

\* The score vectors an inference path can return (one row of N logits).
Logits == [1..NumClasses -> Scores]

\* load_labels(): one label per class.
labels == [i \in 1..NumClasses |-> i + 100]

\* The orders in which the class indices can be listed.
Perms == Permutations(1..NumClasses)

\* torch.sort(res, descending=True): the index orders it may return.  The
\* sort is not stable, so equal scores may come out in any order.
torch_sort_desc(res) ==
    {p \in Perms : \A i, j \in 1..NumClasses : i < j => res[p[i]] >= res[p[j]]}

\* softmax(res)[idx] * 100, kept symbolic: 100 * e^res[idx] / sum_j e^res[j].
percentage(res, idx) == [exp |-> res[idx], over |-> res]

Min(a, b) == IF a <= b THEN a ELSE b

top3_ascending(res) ==
    {[k \in 1..Min(3, NumClasses) |->
        [label |-> labels[p[NumClasses + 1 - k]],
         pct |-> percentage(res, p[NumClasses + 1 - k])]] :
     p \in torch_sort_desc(res)}

\* top3_possibilities(res): the lists it may return.
top3_possibilities(res) ==
    {[k \in 1..Min(3, NumClasses) |->
        [label |-> labels[p[k]], pct |-> percentage(res, p[k])]] :
     p \in torch_sort_desc(res)}

\* IREEInvoker(iree_module)
IREEInvoker(iree_module) == [kind |-> "IREEInvoker", iree_module |-> iree_module]

\* IREEInvoker.__getattr__: returns the closure invoke, whatever the name.
getattr(self, function_name) ==
    [kind |-> "closure", self |-> self, function_name |-> function_name]

\* What the module function function_name computes on args (opaque).
module_call(function_name, args) == [fn |-> function_name, on |-> args]

invoke_first_arg(closure, args) ==
    IF closure.function_name \in closure.self.iree_module
    THEN [raised |-> "none", callee |-> closure.function_name,
          passed |-> <<args[1]>>,
          result |-> module_call(closure.function_name, <<args[1]>>)]
    ELSE [raised |-> "ModuleLookupError", callee |-> "none", passed |-> <<>>,
          result |-> None]

\* The closure's call: self._iree_module[function_name](*args).  The module
\* lookup raises when the name is no function of the module.
invoke(closure, args) ==
    IF closure.function_name \in closure.self.iree_module
    THEN [raised |-> "none", callee |-> closure.function_name,
          passed |-> args,
          result |-> module_call(closure.function_name, args)]
    ELSE [raised |-> "ModuleLookupError", callee |-> "none", passed |-> <<>>,
          result |-> None]

Ok(step) == log' = Append(log, [step |-> step, ev |-> "ok"])

\* An uncaught exception ends the script.
Raise(step, kind) ==
    /\ pc' = "error"
    /\ err' = kind
    /\ log' = Append(log, [step |-> step, ev |-> "raise"])

Emit(lines) == stdout' = stdout \o lines

E2EInit ==
    /\ pc = "load_image"
    /\ err = "none"
    /\ log = <<>>
    /\ img = None
    /\ genCount = 0
    /\ compiled = None
    /\ jit_module = None
    /\ jit_func = None
    /\ torch_arg = None
    /\ jit_arg = None
    /\ torch_out = None
    /\ jit_out = None
    /\ golden_prediction = <<>>
    /\ prediction = <<>>
    /\ stdout = <<>>

\* line 134: img = load_and_preprocess_image(image_url)
LoadImage ==
    /\ pc = "load_image"
    /\ \/ /\ \E i \in Inputs : img' = i
          /\ genCount' = genCount + 1
          /\ pc' = "import"
          /\ err' = err
          /\ Ok("load_image")
       \/ /\ Raise("load_image", "EnvironmentError")
          /\ UNCHANGED <<img, genCount>>
    /\ UNCHANGED <<compiled, jit_module, jit_func, torch_arg, jit_arg,
                   torch_out, jit_out, golden_prediction, prediction, stdout>>

\* lines 135-162: labels, scripting, annotation, import, lowering passes
ImportModule ==
    /\ pc = "import"
    /\ \/ /\ pc' = "compile"
          /\ err' = err
          /\ Ok("import")
       \/ Raise("import", "ImportError")
    /\ UNCHANGED <<img, genCount, compiled, jit_module, jit_func, torch_arg,
                   jit_arg, torch_out, jit_out, golden_prediction, prediction,
                   stdout>>

Compile_swallowed ==
    /\ pc = "compile"
    /\ \/ /\ compiled' = [kind |-> "flatbuffer"]
          /\ Ok("compile")
       \/ /\ compiled' = None
          /\ log' = Append(log, [step |-> "compile", ev |-> "raise"])
    /\ pc' = "load"
    /\ err' = err
    /\ UNCHANGED <<img, genCount, jit_module, jit_func, torch_arg, jit_arg,
                   torch_out, jit_out, golden_prediction, prediction, stdout>>

\* line 164: compiled = backend.compile(mb.module)
Compile ==
    /\ pc = "compile"
    /\ \/ /\ compiled' = [kind |-> "flatbuffer"]
          /\ pc' = "load"
          /\ err' = err
          /\ Ok("compile")
       \/ /\ Raise("compile", "CompilationError")
          /\ UNCHANGED compiled
    /\ UNCHANGED <<img, genCount, jit_module, jit_func, torch_arg, jit_arg,
                   torch_out, jit_out, golden_prediction, prediction, stdout>>

\* line 165: jit_module = backend.load(compiled)
Load ==
    /\ pc = "load"
    /\ \/ /\ jit_module' = IREEInvoker({"forward"})
          /\ pc' = "getattr"
          /\ err' = err
          /\ Ok("load")
       \/ /\ Raise("load", "LoadError")
          /\ UNCHANGED jit_module
    /\ UNCHANGED <<img, genCount, compiled, jit_func, torch_arg, jit_arg,
                   torch_out, jit_out, golden_prediction, prediction, stdout>>

\* line 167: the argument jit_module.forward is evaluated before the call
GetForward ==
    /\ pc = "getattr"
    /\ jit_func' = getattr(jit_module, "forward")
    /\ pc' = "baseline"
    /\ err' = err
    /\ Ok("getattr")
    /\ UNCHANGED <<img, genCount, compiled, jit_module, torch_arg, jit_arg,
                   torch_out, jit_out, golden_prediction, prediction, stdout>>

\* lines 56-58: golden_prediction = top3_possibilities(torch_func(img))
RunBaseline ==
    /\ pc = "baseline"
    /\ torch_arg' = img
    /\ \/ /\ \E out \in Logits :
                /\ torch_out' = Tensor(out)
                /\ \E t \in top3_possibilities(out) :
                      /\ golden_prediction' = t
                      /\ Emit(<<[line |-> "PyTorch prediction", val |-> <<>>],
                                 [line |-> "list", val |-> t]>>)
          /\ pc' = "candidate"
          /\ err' = err
          /\ Ok("baseline")
       \/ /\ Raise("baseline", "ExecutionError")
          /\ UNCHANGED <<torch_out, golden_prediction, stdout>>
    /\ UNCHANGED <<img, genCount, compiled, jit_module, jit_func, jit_arg,
                   jit_out, prediction>>

RunCandidate_regenerated ==
    /\ pc = "candidate"
    /\ \E i \in Inputs : jit_arg' = numpy(i)
    /\ \E out \in Logits :
          /\ jit_out' = [kind |-> "ndarray", data |-> out]
          /\ \E t \in top3_possibilities(out) :
                /\ prediction' = t
                /\ Emit(<<[line |-> "torch-mlir prediction", val |-> <<>>],
                           [line |-> "list", val |-> t]>>)
    /\ pc' = "done"
    /\ err' = err
    /\ Ok("candidate")
    /\ UNCHANGED <<img, genCount, compiled, jit_module, jit_func, torch_arg,
                   torch_out, golden_prediction>>

RunCandidate_early ==
    /\ pc \in {"baseline", "candidate"}
    /\ jit_arg' = numpy(img)
    /\ \E out \in Logits :
          /\ jit_out' = [kind |-> "ndarray", data |-> out]
          /\ \E t \in top3_possibilities(out) :
                /\ prediction' = t
                /\ Emit(<<[line |-> "torch-mlir prediction", val |-> <<>>],
                           [line |-> "list", val |-> t]>>)
    /\ pc' = "done"
    /\ err' = err
    /\ Ok("candidate")
    /\ UNCHANGED <<img, genCount, compiled, jit_module, jit_func, torch_arg,
                   torch_out, golden_prediction>>

\* lines 59-61: prediction = top3_possibilities(torch.from_numpy(jit_func(img.numpy())))
RunCandidate ==
    /\ pc = "candidate"
    /\ LET call == invoke(jit_func, <<numpy(img)>>) IN
       IF call.raised = "none"
       THEN /\ jit_arg' = call.passed[1]
            /\ \/ /\ \E out \in Logits :
                      /\ jit_out' = [kind |-> "ndarray", data |-> out]
                      /\ \E t \in top3_possibilities(from_numpy(jit_out').data) :
                            /\ prediction' = t
                            /\ Emit(<<[line |-> "torch-mlir prediction", val |-> <<>>],
                                       [line |-> "list", val |-> t]>>)
                  /\ pc' = "done"
                  /\ err' = err
                  /\ Ok("candidate")
               \/ /\ Raise("candidate", "ExecutionError")
                  /\ UNCHANGED <<jit_out, prediction, stdout>>
       ELSE /\ Raise("candidate", call.raised)
            /\ UNCHANGED <<jit_arg, jit_out, prediction, stdout>>
    /\ UNCHANGED <<img, genCount, compiled, jit_module, jit_func, torch_arg,
                   torch_out, golden_prediction>>

InvIdle ==
    /\ entry_points = {}
    /\ handles = {}
    /\ calls = <<>>
    /\ looked_up = {}

CmpIdle ==
    /\ tpc = "idle"
    /\ run = 0
    /\ engine_iree = <<>>
    /\ engine_tflite = <<>>
    /\ base_ok = TRUE
    /\ iree_results = <<>>
    /\ tflite_results = <<>>
    /\ exc = "none"
    /\ ret = [kind |-> "unset"]
    /\ verdicts = <<>>

InitE2E == E2EInit /\ InvIdle /\ CmpIdle

NextE2E ==
    \/ LoadImage /\ UNCHANGED <<inv_vars, cmp_vars>>
    \/ ImportModule /\ UNCHANGED <<inv_vars, cmp_vars>>
    \/ Compile /\ UNCHANGED <<inv_vars, cmp_vars>>
    \/ Load /\ UNCHANGED <<inv_vars, cmp_vars>>
    \/ GetForward /\ UNCHANGED <<inv_vars, cmp_vars>>
    \/ RunBaseline /\ UNCHANGED <<inv_vars, cmp_vars>>
    \/ RunCandidate /\ UNCHANGED <<inv_vars, cmp_vars>>

SpecE2E == InitE2E /\ [][NextE2E]_vars

\* ------------------------------------------------------------------------
\* Properties of the script
\* ------------------------------------------------------------------------

\* The order in which the script's steps appear in the source.
ScriptOrder == <<"load_image", "import", "compile", "load", "getattr",
                 "baseline", "candidate">>

\* C2: the baseline and the candidate are called with the same input: the
\* image is generated once, and the array given to jit_func holds the same
\* elements as the tensor given to torch_func, which is the image generated.
C2_SameInput ==
    jit_arg.kind # "None" =>
        /\ torch_arg.kind = "Tensor"
        /\ jit_arg.kind = "ndarray"
        /\ torch_arg.data = jit_arg.data
        /\ torch_arg = img
        /\ genCount = 1

C2_Witness ==
    pc = "done" /\ jit_arg.kind = "ndarray" /\ torch_arg.kind = "Tensor"

\* C3: a failing step ends the script: it is the last step executed, the
\* script is in its error state with that step's exception, and no step is
\* attempted twice.
C3_FailFast ==
    /\ \A i, j \in DOMAIN log : log[i].step = log[j].step => i = j
    /\ \A i \in DOMAIN log :
          log[i].ev = "raise" => i = Len(log) /\ pc = "error" /\ err # "none"
    /\ pc = "error" => log[Len(log)].ev = "raise"
    /\ (\E i \in DOMAIN log : log[i].ev = "raise" /\ log[i].step # "candidate")
          => prediction = <<>> /\ jit_out.kind = "None"

C3_Witness ==
    /\ pc = "error"
    /\ err = "LoadError"
    /\ Len(log) = 4
    /\ log[3] = [step |-> "compile", ev |-> "ok"]

\* C9: the steps run one after the other in the order compile, load,
\* baseline, candidate: the steps executed are always a prefix of the script's
\* order, each step but the last has completed, and the candidate is only
\* called once load has produced the invoker and the baseline has returned.
C9_Sequential ==
    /\ Len(log) <= Len(ScriptOrder)
    /\ \A i \in DOMAIN log : log[i].step = ScriptOrder[i]
    /\ \A i \in DOMAIN log : i < Len(log) => log[i].ev = "ok"
    /\ jit_module.kind # "None" => compiled.kind = "flatbuffer"
    /\ jit_arg.kind # "None" =>
          /\ jit_module.kind = "IREEInvoker"
          /\ jit_func.self = jit_module
          /\ torch_out.kind = "Tensor"
          /\ golden_prediction # <<>>

C9_Witness ==
    /\ pc = "done"
    /\ Len(log) = Len(ScriptOrder)
    /\ log[Len(log)] = [step |-> "candidate", ev |-> "ok"]

\* The class indices named by a top-3 list.
IdxSet(t) == {i \in 1..NumClasses : \E k \in DOMAIN t : t[k].label = labels[i]}

\* The script reports a failure by ending with an exception or by printing
\* something besides the two predictions.
FailureReported == err # "none" \/ pc = "error" \/ Len(stdout) > 4

\* t lists the labels and percentages of the 3 largest scores of res, largest
\* first.
IsTop3(t, res) ==
    /\ DOMAIN t = 1..3
    /\ \A k \in 1..3 : \E i \in 1..NumClasses : t[k].label = labels[i]
    /\ LET at(k) == CHOOSE i \in 1..NumClasses : t[k].label = labels[i] IN
          /\ at(1) # at(2) /\ at(1) # at(3) /\ at(2) # at(3)
          /\ res[at(1)] >= res[at(2)] /\ res[at(2)] >= res[at(3)]
          /\ \A j \in 1..NumClasses \ {at(1), at(2), at(3)} : res[j] <= res[at(3)]
          /\ \A k \in 1..3 : t[k].pct = percentage(res, at(k))

\* The top-3 index sets a score vector admits (one per order of its ties).
Top3Sets(res) == {IdxSet(t) : t \in top3_possibilities(res)}

\* The two paths' top-3 index sets differ, however equal scores are ordered.
Top3Disagree ==
    /\ IdxSet(golden_prediction) # IdxSet(prediction)
    /\ Top3Sets(torch_out.data) \cap Top3Sets(jit_out.data) = {}

\* C7 as claimed: when the top-3 index sets of the two paths differ, the
\* script reports a failure.
C7_Original ==
    (pc = "done" /\ Top3Disagree) => FailureReported

\* C7 amended: each path's list holds the 3 largest scores in descending
\* order, and predictions prints the two lists and compares nothing: the
\* script ends normally with exactly those four prints, whether or not the
\* index sets agree.
C7_Top3Printed ==
    /\ golden_prediction # <<>> => IsTop3(golden_prediction, torch_out.data)
    /\ prediction # <<>> => IsTop3(prediction, jit_out.data)
    /\ pc = "done" =>
          /\ ~FailureReported
          /\ stdout = <<[line |-> "PyTorch prediction", val |-> <<>>],
                        [line |-> "list", val |-> golden_prediction],
                        [line |-> "torch-mlir prediction", val |-> <<>>],
                        [line |-> "list", val |-> prediction]>>

C7_Witness ==
    /\ pc = "done"
    /\ Top3Disagree
    /\ Len(stdout) = 4

\* ------------------------------------------------------------------------
\* IREEInvoker used on its own: any client may look names up and call them
\* ------------------------------------------------------------------------

\* The attribute names a client may look up.
Names == {"forward", "main", "missing"}

\* The argument tuples a client may pass.
Args == {<<1>>, <<2>>, <<1, 2>>}

\* backend.load: the invoker wraps the module of the loaded flatbuffer, whose
\* functions are some of the names.
InitInvoker ==
    /\ entry_points \in SUBSET {"forward", "main"}
    /\ handles = {}
    /\ calls = <<>>
    /\ looked_up = {}
    /\ E2EInit
    /\ CmpIdle

\* jit_module.<function_name>
LookUp(function_name) ==
    /\ looked_up' = looked_up \cup {function_name}
    /\ handles' = handles \cup {getattr(IREEInvoker(entry_points), function_name)}
    /\ UNCHANGED <<entry_points, calls>>

\* handle(*args)
CallHandle(handle, args) ==
    /\ Len(calls) < MaxCalls
    /\ calls' = Append(calls, [handle |-> handle, args |-> args,
                               out |-> invoke(handle, args)])
    /\ UNCHANGED <<entry_points, handles, looked_up>>

NextInvoker ==
    \/ \E n \in Names : LookUp(n) /\ UNCHANGED <<e2e_vars, cmp_vars>>
    \/ \E h \in handles : \E a \in Args :
          CallHandle(h, a) /\ UNCHANGED <<e2e_vars, cmp_vars>>

SpecInvoker == InitInvoker /\ [][NextInvoker]_vars

\* C10 as claimed: a name that is no entry point of the module is rejected
\* when it is looked up, so no callable for it exists and no call through one
\* is ever made.
C10_Original ==
    /\ \A h \in handles : h.function_name \in entry_points
    /\ \A i \in DOMAIN calls : calls[i].handle.function_name \in entry_points

\* C10 amended: every lookup, of an entry point or not, yields a callable; a
\* callable for an entry point forwards its arguments unchanged to that
\* module function and returns its result; a callable for any other name
\* raises the module's lookup error when it is called, not before.
C10_LazyLookup ==
    /\ \A n \in looked_up :
          \E h \in handles : h.kind = "closure" /\ h.function_name = n
    /\ \A i \in DOMAIN calls :
          LET c == calls[i] IN
          IF c.handle.function_name \in entry_points
          THEN /\ c.out.raised = "none"
               /\ c.out.callee = c.handle.function_name
               /\ c.out.passed = c.args
               /\ c.out.result = [fn |-> c.handle.function_name, on |-> c.args]
          ELSE /\ c.out.raised = "ModuleLookupError"
               /\ c.out.callee = "none"

C10_Witness ==
    /\ "missing" \in looked_up
    /\ \E i, j \in DOMAIN calls :
          /\ calls[i].handle.function_name = "missing"
          /\ calls[i].out.raised = "ModuleLookupError"
          /\ calls[j].handle.function_name = "forward"
          /\ calls[j].out.raised = "none"
          /\ calls[j].args = <<1, 2>>

\* ------------------------------------------------------------------------
\* mobilenet_v3_test.py
\* ------------------------------------------------------------------------

\* A float: a finite value counted in units of 1e-5, NaN, or an infinity.
Fin(n) == [k |-> "fin", v |-> n]
NaN == [k |-> "nan", v |-> 0]
PInf == [k |-> "inf", v |-> 1]
NInf == [k |-> "inf", v |-> -1]

\* atol=1e-4 of line 15, in units of 1e-5.
Atol == 10

\* numpy.isclose's default rtol is 1e-5 = 1 / RtolDen.
RtolDen == 100000

Abs(n) == IF n < 0 THEN -n ELSE n

isfinite(x) == x.k = "fin"

\* abs(x - y) <= atol + rtol * abs(y), both sides multiplied by RtolDen.
within_tol(x, y, atol) ==
    RtolDen * Abs(x.v - y.v) <= RtolDen * atol + Abs(y.v)

isclose_abs_only(a, b, atol) ==
    \/ isfinite(a) /\ isfinite(b) /\ Abs(a.v - b.v) <= atol
    \/ ~isfinite(a) /\ ~isfinite(b) /\ a.k = "inf" /\ b.k = "inf" /\ a.v = b.v

isclose_inverted(a, b, atol) ==
    \/ isfinite(a) /\ isfinite(b)
         /\ RtolDen * Abs(a.v - b.v) >= RtolDen * atol + Abs(b.v)
    \/ ~isfinite(a) /\ ~isfinite(b) /\ a.k = "inf" /\ b.k = "inf" /\ a.v = b.v

isclose_strict(a, b, atol) ==
    \/ isfinite(a) /\ isfinite(b)
         /\ RtolDen * Abs(a.v - b.v) < RtolDen * atol + Abs(b.v)
    \/ ~isfinite(a) /\ ~isfinite(b) /\ a.k = "inf" /\ b.k = "inf" /\ a.v = b.v

isclose_tightening(a, b, atol) ==
    \/ isfinite(a) /\ isfinite(b)
         /\ RtolDen * Abs(a.v - b.v) <= (IF run > 1 THEN 0 ELSE RtolDen * atol + Abs(b.v))
    \/ ~isfinite(a) /\ ~isfinite(b) /\ a.k = "inf" /\ b.k = "inf" /\ a.v = b.v

\* numpy.isclose(a, b, atol=atol) on one pair of elements, equal_nan=False:
\* finite values are compared within the tolerance, other values are close
\* when they are equal, and NaN equals nothing.
isclose(a, b, atol) ==
    \/ isfinite(a) /\ isfinite(b) /\ within_tol(a, b, atol)
    \/ ~isfinite(a) /\ ~isfinite(b) /\ a.k = "inf" /\ b.k = "inf" /\ a.v = b.v

\* numpy.isclose(x, y, atol=atol).all() on two arrays of one shape.
all_close(x, y, atol) == \A i \in DOMAIN x : isclose(x[i], y[i], atol)

\* The element pairs <<iree, tflite>> the two engines may produce.
Bases == {0, 70000, 200000, -200000}
Deltas == {-11, 0, 10, 11}
ElemPairs ==
    {<<Fin(b + d), Fin(b)>> : b \in Bases, d \in Deltas}
    \cup {<<NaN, Fin(b)>> : b \in Bases}
    \cup {<<a, b>> : a \in {NaN, PInf, NInf, Fin(0)}, b \in {NaN, PInf}}

\* The tolerances the closeness check is examined at (units of 1e-5).
Tols == {0, 5, Atol, Atol + 1, Atol + 2}

\* One model and one input: what each engine computes for them, and whether
\* the inherited compare_results accepts the two result lists.
InitCompare ==
    /\ tpc = "start"
    /\ run = 1
    /\ \E n \in 1..MaxLen : \E ps \in [1..n -> ElemPairs] :
          /\ engine_iree = [i \in 1..n |-> ps[i][1]]
          /\ engine_tflite = [i \in 1..n |-> ps[i][2]]
    /\ base_ok \in BOOLEAN
    /\ iree_results = <<>>
    /\ tflite_results = <<>>
    /\ exc = "none"
    /\ ret = [kind |-> "unset"]
    /\ verdicts = <<>>
    /\ E2EInit
    /\ InvIdle

\* test_compile_tflite -> compile_and_execute: runs both engines on the input
\* and hands the two result lists to compare_results.
compile_and_execute ==
    /\ tpc = "start"
    /\ iree_results' = <<engine_iree>>
    /\ tflite_results' = <<engine_tflite>>
    /\ tpc' = "compare"
    /\ UNCHANGED <<run, engine_iree, engine_tflite, base_ok, exc, ret, verdicts>>

compare_results_no_assert ==
    /\ tpc = "compare"
    /\ IF ~base_ok
       THEN /\ exc' = "BaseCheckFailure"
            /\ ret' = ret
            /\ verdicts' = Append(verdicts, "fail")
       ELSE /\ exc' = exc
            /\ ret' = None
            /\ verdicts' = Append(verdicts, "pass")
    /\ tpc' = "finished"
    /\ UNCHANGED <<run, engine_iree, engine_tflite, base_ok, iree_results,
                   tflite_results>>

\* MobilenetV3Test.compare_results(iree_results, tflite_results, details):
\* the inherited check, then assertTrue on the closeness of the first outputs.
compare_results ==
    /\ tpc = "compare"
    /\ IF ~base_ok
       THEN /\ exc' = "BaseCheckFailure"
            /\ ret' = ret
            /\ verdicts' = Append(verdicts, "fail")
       ELSE IF all_close(iree_results[1], tflite_results[1], Atol)
       THEN /\ exc' = exc
            /\ ret' = None
            /\ verdicts' = Append(verdicts, "pass")
       ELSE /\ exc' = "AssertionError"
            /\ ret' = ret
            /\ verdicts' = Append(verdicts, "fail")
    /\ tpc' = "finished"
    /\ UNCHANGED <<run, engine_iree, engine_tflite, base_ok, iree_results,
                   tflite_results>>

\* The test program is run again on the same model and input: a new process,
\* which starts from nothing but the model and the input.
Rerun ==
    /\ tpc = "finished"
    /\ run < MaxRuns
    /\ run' = run + 1
    /\ tpc' = "start"
    /\ iree_results' = <<>>
    /\ tflite_results' = <<>>
    /\ exc' = "none"
    /\ ret' = [kind |-> "unset"]
    /\ UNCHANGED <<engine_iree, engine_tflite, base_ok, verdicts>>

NextCompare ==
    \/ compile_and_execute /\ UNCHANGED <<e2e_vars, inv_vars>>
    \/ compare_results /\ UNCHANGED <<e2e_vars, inv_vars>>
    \/ Rerun /\ UNCHANGED <<e2e_vars, inv_vars>>

SpecCompare == InitCompare /\ [][NextCompare]_vars

\* ------------------------------------------------------------------------
\* Properties of the comparison
\* ------------------------------------------------------------------------

\* compare_results returned normally: the comparison passed.
Passed == tpc = "finished" /\ exc = "none" /\ ret = None

\* The two arrays compared: the first output of each engine.
Cand == iree_results[1]
Base == tflite_results[1]

\* abs(a - b) as IEEE arithmetic computes it.
deviation(a, b) ==
    IF a.k = "fin" /\ b.k = "fin" THEN Fin(Abs(a.v - b.v))
    ELSE IF a.k = "nan" \/ b.k = "nan" THEN NaN
    ELSE IF a.k = "inf" /\ b.k = "inf" /\ a.v = b.v THEN NaN
    ELSE PInf

\* |a - b| <= eps, which is false when the difference is NaN or infinite.
AbsWithin(a, b, eps) ==
    deviation(a, b).k = "fin" /\ deviation(a, b).v <= eps

\* C1 as claimed: the comparison passes exactly when every candidate element
\* is within the absolute tolerance 1e-4 of the baseline element, whatever
\* the magnitude of the values.
C1_Original ==
    (tpc = "finished" /\ base_ok) =>
        (Passed <=> \A i \in DOMAIN Cand : AbsWithin(Cand[i], Base[i], 10))

\* C1 amended: the comparison passes exactly when the inherited check accepts
\* and every element of the first IREE output is close to the TFLite element
\* in numpy.isclose's sense: |iree - tflite| <= 1e-4 + 1e-5 * |tflite| for
\* finite values, equal infinities are close, NaN is close to nothing.
C1_IsClose ==
    tpc = "finished" =>
        (Passed <=>
            /\ base_ok
            /\ \A i \in DOMAIN Cand :
                  \/ /\ Cand[i].k = "fin" /\ Base[i].k = "fin"
                     /\ 100000 * Abs(Cand[i].v - Base[i].v)
                            <= 1000000 + Abs(Base[i].v)
                  \/ /\ Cand[i].k = "inf" /\ Base[i].k = "inf"
                     /\ Cand[i].v = Base[i].v)

C1_Witness ==
    /\ Passed
    /\ \E i \in DOMAIN Cand :
          /\ Cand[i].k = "fin" /\ Base[i].k = "fin"
          /\ Abs(Cand[i].v - Base[i].v) > 10

\* C4 as claimed: outputs that diverge beyond the tolerance are reported as a
\* result with passed = false, and nothing is raised.
C4_Original ==
    (tpc = "finished" /\ base_ok /\ ~all_close(Cand, Base, Atol)) =>
        (exc = "none" /\ ret.kind = "ComparisonResult")

\* C4 amended: outputs that are not close make compare_results raise an
\* assertion failure; it returns nothing and the run counts as failed.
C4_Raised ==
    (tpc = "finished" /\ base_ok /\ ~all_close(Cand, Base, Atol)) =>
        /\ exc = "AssertionError"
        /\ ret.kind = "unset"
        /\ verdicts[Len(verdicts)] = "fail"

C4_Witness ==
    /\ tpc = "finished"
    /\ exc = "AssertionError"
    /\ \E i \in DOMAIN Cand : Cand[i].k = "fin" /\ Base[i].k = "fin"
                              /\ Abs(Cand[i].v - Base[i].v) = 11

\* C5: a pair of outputs that is close at a tolerance is close at every
\* larger tolerance.
C5_Monotone ==
    tpc \in {"compare", "finished"} =>
        \A e1, e2 \in Tols :
            (e1 <= e2 /\ all_close(Cand, Base, e1)) => all_close(Cand, Base, e2)

C5_Witness ==
    /\ tpc = "finished"
    /\ Passed
    /\ ~all_close(Cand, Base, 5)
    /\ all_close(Cand, Base, Atol + 2)

\* C6 as claimed: equal outputs pass at every tolerance with a deviation of
\* zero.
C6_Original ==
    (tpc = "finished" /\ base_ok /\ iree_results = tflite_results) =>
        /\ Passed
        /\ \A e \in Tols : all_close(Cand, Base, e)
        /\ \A i \in DOMAIN Cand : deviation(Cand[i], Base[i]) = Fin(0)

\* C6 amended: equal outputs without a NaN pass at every tolerance, and the
\* deviation of every finite element is zero; equal outputs holding a NaN
\* fail the comparison.
C6_Identity ==
    (tpc = "finished" /\ base_ok /\ iree_results = tflite_results) =>
        IF \E i \in DOMAIN Cand : Cand[i].k = "nan"
        THEN ~Passed /\ exc = "AssertionError"
        ELSE /\ Passed
             /\ \A e \in Tols : all_close(Cand, Base, e)
             /\ \A i \in DOMAIN Cand :
                   Cand[i].k = "fin" => deviation(Cand[i], Base[i]) = Fin(0)

C6_Witness ==
    /\ Passed
    /\ iree_results = tflite_results
    /\ \E i \in DOMAIN Cand : Cand[i] = Fin(70000)

====
